---- MODULE Spec2Model ----
(***************************************************************************)
(* Model of the job-scraper normalisation and validation core:             *)
(* core/models.py (JobListing, SalaryInfo and their pydantic validators).  *)
(*                                                                         *)
(* A Python str is a sequence of one-character strings.  A raw input       *)
(* value is a tagged record so that "key not given", None and a value are  *)
(* told apart the way pydantic tells them apart.                           *)
(***************************************************************************)
EXTENDS Integers, Sequences, FiniteSets, TLC

VARIABLES raw, pc, errors, listing, rebuilt,
          sites_file, rules_files, sites_config, rules_config, call, reads,
          root_level, root_handlers, setup_call, formatted,
          logger_level, contexts, blocks, event,
          fetch_args, fetch_pc, attempt, sent, result

\* the variables of each component
jobVars == <<raw, pc, errors, listing, rebuilt>>
configVars == <<sites_file, rules_files, sites_config, rules_config, call, reads>>
loggingVars == <<root_level, root_handlers, setup_call, formatted>>
contextVars == <<logger_level, contexts, blocks, event>>
fetchVars == <<fetch_args, fetch_pc, attempt, sent, result>>

vars == <<jobVars, configVars, loggingVars, contextVars, fetchVars>>

(***************************************************************************)
(* Bounds of the model.                                                    *)
(***************************************************************************)
MaxLen == 4
MaxItems == 3
MaxAmount == 2
MaxReads == 2
MaxContexts == 2
MaxRetries == 3

(***************************************************************************)
(* Characters.  str.strip(), str.split() and pydantic's str_strip_whitespace*)
(* all treat space, tab and newline as whitespace; ' ' in v looks for the  *)
(* space character only.                                                   *)
(***************************************************************************)
Whitespace == {" ", "\t", "\n"}
Uppers == <<"A", "E", "G", "H", "M", "O", "P", "R", "T">>
Lowers == <<"a", "e", "g", "h", "m", "o", "p", "r", "t">>
UpperChars == {Uppers[i] : i \in 1..Len(Uppers)}

\* str.isupper() of a one-character string
IsUpper(c) == c \in UpperChars

\* str.lower() of a one-character string
LowerChar(c) ==
  IF \E i \in 1..Len(Uppers) : Uppers[i] = c
  THEN Lowers[CHOOSE i \in 1..Len(Uppers) : Uppers[i] = c]
  ELSE c

\* str.lower()
Lower(s) == [i \in 1..Len(s) |-> LowerChar(s[i])]

\* c in s
Contains(s, c) == \E i \in 1..Len(s) : s[i] = c

NonWsIdx(s) == {i \in 1..Len(s) : s[i] \notin Whitespace}

SetMin(S) == CHOOSE x \in S : \A y \in S : x <= y
SetMax(S) == CHOOSE x \in S : \A y \in S : x >= y

\* str.strip(): drop the leading and the trailing whitespace
Strip(s) ==
  IF NonWsIdx(s) = {} THEN <<>>
  ELSE SubSeq(s, SetMin(NonWsIdx(s)), SetMax(NonWsIdx(s)))

\* str.split(): the maximal runs of non-whitespace characters, in order
RECURSIVE SplitFrom(_, _, _)
SplitFrom(s, cur, acc) ==
  IF s = <<>> THEN (IF cur = <<>> THEN acc ELSE Append(acc, cur))
  ELSE IF Head(s) \in Whitespace
       THEN SplitFrom(Tail(s), <<>>, IF cur = <<>> THEN acc ELSE Append(acc, cur))
       ELSE SplitFrom(Tail(s), Append(cur, Head(s)), acc)

Split(s) == SplitFrom(s, <<>>, <<>>)

\* sep.join(parts)
RECURSIVE Join(_, _)
Join(sep, parts) ==
  IF parts = <<>> THEN <<>>
  ELSE IF Len(parts) = 1 THEN parts[1]
  ELSE parts[1] \o sep \o Join(sep, Tail(parts))

\* list(dict.fromkeys(items)): first occurrences, in order
RECURSIVE DictFromKeys(_, _)
DictFromKeys(items, acc) ==
  IF items = <<>> THEN acc
  ELSE DictFromKeys(Tail(items),
                    IF \E i \in 1..Len(acc) : acc[i] = Head(items)
                    THEN acc ELSE Append(acc, Head(items)))

\* [f(x) for x in items if keep(x)] for the one use in clean_list_items
RECURSIVE StripNonEmpty(_)
StripNonEmpty(items) ==
  IF items = <<>> THEN <<>>
  ELSE IF Head(items) # <<>> /\ Strip(Head(items)) # <<>>
       THEN <<Strip(Head(items))>> \o StripNonEmpty(Tail(items))
       ELSE StripNonEmpty(Tail(items))

\* all strings of length <= n over the characters cs
RECURSIVE StringsUpTo(_, _)
StringsUpTo(cs, n) ==
  IF n = 0 THEN {<<>>}
  ELSE LET shorter == StringsUpTo(cs, n - 1)
       IN shorter \cup {Append(s, c) : s \in shorter, c \in cs}

\* all lists of length <= n over the items is
RECURSIVE ListsUpTo(_, _)
ListsUpTo(is, n) ==
  IF n = 0 THEN {<<>>}
  ELSE LET shorter == ListsUpTo(is, n - 1)
       IN shorter \cup {Append(l, x) : l \in shorter, x \in is}

(***************************************************************************)
(* Values.  A raw string-valued input is [tag, val]: tag "missing" (key    *)
(* not given), "none" (None) or "str"; an optional number is [tag, num];   *)
(* a classification input is [tag, tok] with tag "none", "str" (a raw      *)
(* string token) or "enum" (a member of the Enum class).                   *)
(***************************************************************************)
Missing == [tag |-> "missing", val |-> <<>>]
NoneStr == [tag |-> "none", val |-> <<>>]
Str(s) == [tag |-> "str", val |-> s]

NoneNum == [tag |-> "none", num |-> 0]
Num(n) == [tag |-> "num", num |-> n]

NoneTok == [tag |-> "none", tok |-> ""]
Tok(t) == [tag |-> "str", tok |-> t]
EnumMember(t) == [tag |-> "enum", tok |-> t]

MissingList == [tag |-> "missing", items |-> <<>>]
NoneList == [tag |-> "none", items |-> <<>>]
List(l) == [tag |-> "list", items |-> l]

NoExperience ==
  [tag |-> "none", min_years |-> NoneNum, max_years |-> NoneNum,
   original_text |-> NoneTok]

NoSalary ==
  [tag |-> "none", min_amount |-> NoneNum, max_amount |-> NoneNum,
   currency |-> NoneTok, original_text |-> NoneTok]

\* the result of one validator: the value it returns, or the error it raises
Ok(v) == [ok |-> TRUE, val |-> v, msg |-> ""]
Fail(m) == [ok |-> FALSE, val |-> <<>>, msg |-> m]

\* the errors one field contributes to the ValidationError
FieldErrors(loc, r) == IF r.ok THEN {} ELSE {[loc |-> loc, msg |-> r.msg]}

JobTypeValues ==
  {"full_time", "part_time", "contract", "internship", "freelance", "Temporary"}
SeniorityValues ==
  {"entry", "junior", "mid", "senior", "lead", "manager", "director", "executive"}
CurrencyValues == {"EGP", "AED", "SAR", "KWD", "USD", "EUR"}

(***************************************************************************)
(* pydantic's own validation of a field, before the class's validators.    *)
(***************************************************************************)
\* a required str field under str_strip_whitespace=True
StrField(rv) ==
  CASE rv.tag = "missing" -> Fail("Field required")
    [] rv.tag = "none" -> Fail("Input should be a valid string")
    [] OTHER -> Ok(Strip(rv.val))

\* an Optional[str] field under str_strip_whitespace=True
OptStrField(rv) ==
  IF rv.tag = "str" THEN Ok(Str(Strip(rv.val))) ELSE Ok(NoneStr)

\* a required HttpUrl field: surrounding whitespace is dropped, then the text
\* must be a scheme followed by a host
HttpUrlField(rv) ==
  CASE rv.tag = "missing" -> Fail("Field required")
    [] rv.tag = "none" -> Fail("URL input should be a string or URL")
    [] OTHER ->
         LET t == Strip(rv.val)
         IN IF Len(t) >= 2 /\ t[1] = "https://"
               /\ \A i \in 2..Len(t) : t[i] \notin Whitespace \cup {"https://"}
            THEN Ok(t)
            ELSE Fail("Input should be a valid URL")

\* an Optional[<Enum>] field with use_enum_values=True: a member or its value
\* is accepted and stored as the value
EnumField(rv, values) ==
  IF rv.tag = "none" THEN Ok(NoneTok)
  ELSE IF rv.tok \in values THEN Ok(Tok(rv.tok))
  ELSE Fail("Input should be a member of the enumeration")

\* an Optional[<Enum>] field of a model without use_enum_values: a member or
\* its value is accepted and stored as the member
EnumMemberField(rv, values) ==
  IF rv.tag = "none" THEN Ok(NoneTok)
  ELSE IF rv.tok \in values THEN Ok(EnumMember(rv.tok))
  ELSE Fail("Input should be a member of the enumeration")

\* an Optional[float] field without constraints
FloatField(rv) == Ok(rv)

\* an Optional[float] field with ge=0
NonNegFloatField(rv) ==
  IF rv.tag = "num" /\ rv.num < 0
  THEN Fail("Input should be greater than or equal to 0")
  ELSE Ok(rv)

\* a List[str] field with a default factory, under str_strip_whitespace=True
StrListField(rv) ==
  CASE rv.tag = "missing" -> Ok(<<>>)
    [] rv.tag = "none" -> Fail("Input should be a valid list")
    [] OTHER -> Ok([i \in 1..Len(rv.items) |-> Strip(rv.items[i])])

(***************************************************************************)
(* SalaryInfo                                                              *)
(***************************************************************************)
\* validate_salary_range that puts an inverted range in order instead of raising
validate_salary_range_swapping(s) ==
  IF s.min_amount.tag = "num" /\ s.max_amount.tag = "num"
     /\ s.min_amount.num > s.max_amount.num
  THEN Ok([s EXCEPT !.min_amount = s.max_amount, !.max_amount = s.min_amount])
  ELSE Ok(s)

\* SalaryInfo.validate_salary_range
validate_salary_range(s) ==
  IF s.min_amount.tag = "num" /\ s.max_amount.tag = "num"
     /\ s.min_amount.num > s.max_amount.num
  THEN Fail("min_amount cannot be greater than max_amount")
  ELSE Ok(s)

\* SalaryInfo(min_amount=.., max_amount=.., currency=.., original_text=..):
\* the fields are validated, then the model validator runs if all are valid
SalaryInfo(min_amount, max_amount, currency, original_text) ==
  LET mn == NonNegFloatField(min_amount)
      mx == NonNegFloatField(max_amount)
      cu == EnumMemberField(currency, CurrencyValues)
  IN IF ~mn.ok THEN mn
     ELSE IF ~mx.ok THEN mx
     ELSE IF ~cu.ok THEN cu
     ELSE validate_salary_range(
            [tag |-> "obj", min_amount |-> mn.val, max_amount |-> mx.val,
             currency |-> cu.val,
             original_text |-> original_text])

\* the salary field of JobListing: Optional[SalaryInfo] given as a mapping
SalaryField(rv) ==
  IF rv.tag = "none" THEN Ok(NoSalary)
  ELSE SalaryInfo(rv.min_amount, rv.max_amount, rv.currency, rv.original_text)

(***************************************************************************)
(* ExperienceRequirement                                                   *)
(***************************************************************************)
\* the le=50 of min_years / max_years
MaxYears == 50

\* an Optional[int] field with ge=0 and no upper limit
YearsFieldWithoutUpperLimit(rv) ==
  IF rv.tag = "num" /\ rv.num < 0
  THEN Fail("Input should be greater than or equal to 0")
  ELSE Ok(rv)

\* an Optional[int] field with ge=0, le=50
YearsField(rv) ==
  IF rv.tag = "num" /\ rv.num < 0
  THEN Fail("Input should be greater than or equal to 0")
  ELSE IF rv.tag = "num" /\ rv.num > MaxYears
       THEN Fail("Input should be less than or equal to 50")
       ELSE Ok(rv)

\* ExperienceRequirement.validate_experience_range
validate_experience_range(x) ==
  IF x.min_years.tag = "num" /\ x.max_years.tag = "num"
     /\ x.min_years.num > x.max_years.num
  THEN Fail("min_years cannot be greater than max_years")
  ELSE Ok(x)

\* ExperienceRequirement(min_years=.., max_years=.., original_text=..)
ExperienceRequirement(min_years, max_years, original_text) ==
  LET mn == YearsField(min_years)
      mx == YearsField(max_years)
  IN IF ~mn.ok THEN mn
     ELSE IF ~mx.ok THEN mx
     ELSE validate_experience_range(
            [tag |-> "obj", min_years |-> mn.val, max_years |-> mx.val,
             original_text |-> original_text])

\* the experience field of JobListing: Optional[ExperienceRequirement]
ExperienceField(rv) ==
  IF rv.tag = "none" THEN Ok(NoExperience)
  ELSE ExperienceRequirement(rv.min_years, rv.max_years, rv.original_text)

(***************************************************************************)
(* JobListing field validators                                             *)
(***************************************************************************)
\* JobListing.not_empty ('title', 'company', 'description')
not_empty(v) ==
  IF v = <<>> \/ Strip(v) = <<>> THEN Fail("Field cannot be empty") ELSE Ok(v)

\* clean_whitespace with the whitespace runs inside the text left as they are
clean_whitespace_ends_only(v) == Ok(Strip(v))

\* JobListing.clean_whitespace ('title', 'company', 'description')
clean_whitespace(v) == Ok(Join(<<" ">>, Split(v)))

\* validate_non_empty without its emptiness test
validate_non_empty_unchecked(v) == Ok(v)

\* JobListing.validate_non_empty ('job_id', 'source', 'source_url')
validate_non_empty(v) ==
  IF v = <<>> \/ Strip(v) = <<>> THEN Fail("Field cannot be empty") ELSE Ok(v)

\* validate_job_id without its hyphen test
validate_job_id_spaces_only(v) ==
  IF v = <<>> \/ Strip(v) = <<>> \/ Contains(v, " ")
  THEN Fail("job_id cannot be empty or contain spaces")
  ELSE Ok(Strip(v))

\* JobListing.validate_job_id
validate_job_id(v) ==
  IF v = <<>> \/ Strip(v) = <<>> \/ Contains(v, " ")
  THEN Fail("job_id cannot be empty or contain spaces")
  ELSE IF Contains(Strip(v), "-")
       THEN Fail("job_id must not contain '-'")
       ELSE Ok(Strip(v))

\* clean_list_items without the dict.fromkeys step
clean_list_items_keep_duplicates(v) == Ok(StripNonEmpty(v))

\* JobListing.clean_list_items ('skills', 'languages')
clean_list_items(v) == Ok(DictFromKeys(StripNonEmpty(v), <<>>))

\* description_starts_with_upper without its test
description_any_first_character(v) == Ok(v)

\* JobListing.description_starts_with_upper
description_starts_with_upper(v) ==
  IF v # <<>> /\ ~IsUpper(v[1])
  THEN Fail("Description must start with an uppercase letter")
  ELSE Ok(v)

\* reject_enum_instance_for_job_type without its isinstance test
accept_enum_instance_for_job_type(rv) == Ok(rv)

\* JobListing.reject_enum_instance_for_job_type (mode='before')
reject_enum_instance_for_job_type(rv) ==
  IF rv.tag = "enum" THEN Fail("Invalid enum value") ELSE Ok(rv)

\* 'remote' as a str
RemoteWord == <<"r", "e", "m", "o", "t", "e">>

\* error reporting that stops at the first field that failed
RECURSIVE FirstErrors(_)
FirstErrors(sets) ==
  IF sets = <<>> THEN {}
  ELSE IF Head(sets) # {} THEN Head(sets)
  ELSE FirstErrors(Tail(sets))

\* what pydantic reports for a model: the errors of every field, not only the first
CollectErrors(sets) == UNION {sets[i] : i \in 1..Len(sets)}

\* has_salary_info written with 'and' between the two amounts
HasSalaryInfoBothAmounts(salary) ==
  salary.tag # "none"
  /\ (salary.min_amount.tag # "none" /\ salary.max_amount.tag # "none")

\* has_salary_info written as bool(self.salary) alone
HasSalaryInfoWhenPresent(salary) == salary.tag # "none"

\* the has_salary_info expression of set_computed_flags
HasSalaryInfo(salary) ==
  salary.tag # "none"
  /\ (salary.min_amount.tag # "none" \/ salary.max_amount.tag # "none")

\* is_remote compared without .lower()
IsRemoteCaseSensitive(work_arrangement) ==
  work_arrangement.tag # "none" /\ work_arrangement.val = RemoteWord

\* the is_remote expression of set_computed_flags
IsRemote(work_arrangement) ==
  work_arrangement.tag # "none" /\ Lower(work_arrangement.val) = RemoteWord

\* the fields of JobListing, each with its validators in definition order
\* (the validators of a field run in definition order; the first error ends it)
JobIdField(rv) ==
  LET a == StrField(rv)
      b == IF a.ok THEN validate_non_empty(a.val) ELSE a
  IN IF b.ok THEN validate_job_id(b.val) ELSE b
SourceField(rv) ==
  LET a == StrField(rv)
  IN IF a.ok THEN validate_non_empty(a.val) ELSE a
SourceUrlField(rv) ==
  LET a == HttpUrlField(rv)
  IN IF a.ok THEN validate_non_empty(a.val) ELSE a
TitleField(rv) ==
  LET a == StrField(rv)
      b == IF a.ok THEN not_empty(a.val) ELSE a
  IN IF b.ok THEN clean_whitespace(b.val) ELSE b
CompanyField(rv) ==
  LET a == StrField(rv)
      b == IF a.ok THEN not_empty(a.val) ELSE a
  IN IF b.ok THEN clean_whitespace(b.val) ELSE b
DescriptionField(rv) ==
  LET a == StrField(rv)
      b == IF a.ok THEN not_empty(a.val) ELSE a
      c == IF b.ok THEN clean_whitespace(b.val) ELSE b
  IN IF c.ok THEN description_starts_with_upper(c.val) ELSE c
JobTypeField(rv) ==
  LET a == reject_enum_instance_for_job_type(rv)
  IN IF a.ok THEN EnumField(a.val, JobTypeValues) ELSE a
\* a seniority field given the 'before' validator that job_type has
SeniorityFieldRejectingMembers(rv) ==
  IF rv.tag = "enum" THEN Fail("Invalid enum value")
  ELSE EnumField(rv, SeniorityValues)

SeniorityField(rv) == EnumField(rv, SeniorityValues)
CurrencyField(rv) == EnumField(rv, CurrencyValues)
SkillsField(rv) ==
  LET a == StrListField(rv)
  IN IF a.ok THEN clean_list_items(a.val) ELSE a
LanguagesField(rv) ==
  LET a == StrListField(rv)
  IN IF a.ok THEN clean_list_items(a.val) ELSE a

\* the location of an error raised by a model validator: the empty tuple, no field
ModelLoc == "()"

\* the legacy flat salary fields are given and salary is not
LegacySalaryGiven(e) ==
  e.salary.tag = "none"
  /\ (e.salary_min.tag # "none" \/ e.salary_max.tag # "none")

\* the salary synthesised without the currency
SynthesizedSalaryWithoutCurrency(e) ==
  IF LegacySalaryGiven(e)
  THEN SalaryInfo(e.salary_min, e.salary_max, NoneTok, NoneTok)
  ELSE Ok(e.salary)

\* the salary after the first statement of set_computed_flags
SynthesizedSalary(e) ==
  IF LegacySalaryGiven(e)
  THEN SalaryInfo(e.salary_min, e.salary_max, e.currency, NoneTok)
  ELSE Ok(e.salary)

\* JobListing.set_computed_flags (mode='after'): runs on the validated fields
set_computed_flags(e) ==
  LET made == SynthesizedSalary(e)
  IN IF ~made.ok THEN made
     ELSE Ok([e EXCEPT
            !.salary = made.val,
            !.has_salary_info = HasSalaryInfo(made.val),
            !.is_remote = IsRemote(e.work_arrangement)])

\* a dump that gives job_type as the enum member (use_enum_values not applied)
to_dict_with_enum_members(e) ==
  [e EXCEPT
     !.job_id = Str(e.job_id), !.source = Str(e.source),
     !.source_url = Str(e.source_url), !.title = Str(e.title),
     !.company = Str(e.company), !.description = Str(e.description),
     !.job_type = IF e.job_type.tag = "none" THEN NoneTok
                  ELSE EnumMember(e.job_type.tok),
     !.skills = List(e.skills), !.languages = List(e.languages),
     !.salary = IF e.salary.tag = "none" THEN NoSalary
                ELSE [e.salary EXCEPT !.tag = "dict"],
     !.experience = IF e.experience.tag = "none" THEN NoExperience
                    ELSE [e.experience EXCEPT !.tag = "dict"]]

\* JobListing.to_dict: model_dump() of the entity, every field under its name;
\* strings and lists as plain values, the sub-models as mappings
to_dict(e) ==
  [e EXCEPT
     !.job_id = Str(e.job_id), !.source = Str(e.source),
     !.source_url = Str(e.source_url), !.title = Str(e.title),
     !.company = Str(e.company), !.description = Str(e.description),
     !.skills = List(e.skills), !.languages = List(e.languages),
     !.salary = IF e.salary.tag = "none" THEN NoSalary
                ELSE [e.salary EXCEPT !.tag = "dict"],
     !.experience = IF e.experience.tag = "none" THEN NoExperience
                    ELSE [e.experience EXCEPT !.tag = "dict"]]

\* JobListing(r): every field is validated and the errors of all fields are
\* collected; the model validator runs only when no field failed
JobListing(r) ==
  LET job_id == JobIdField(r.job_id)
      source == SourceField(r.source)
      source_url == SourceUrlField(r.source_url)
      title == TitleField(r.title)
      company == CompanyField(r.company)
      description == DescriptionField(r.description)
      job_type == JobTypeField(r.job_type)
      seniority == SeniorityField(r.seniority)
      work_arrangement == OptStrField(r.work_arrangement)
      salary_min == FloatField(r.salary_min)
      salary_max == FloatField(r.salary_max)
      salary == SalaryField(r.salary)
      currency == CurrencyField(r.currency)
      skills == SkillsField(r.skills)
      languages == LanguagesField(r.languages)
      experience == ExperienceField(r.experience)
      fieldErrors ==
        CollectErrors(<<
          FieldErrors("job_id", job_id), FieldErrors("source", source),
          FieldErrors("source_url", source_url), FieldErrors("title", title),
          FieldErrors("company", company),
          FieldErrors("description", description),
          FieldErrors("job_type", job_type), FieldErrors("seniority", seniority),
          FieldErrors("salary", salary), FieldErrors("currency", currency),
          FieldErrors("skills", skills), FieldErrors("languages", languages),
          FieldErrors("experience", experience)>>)
      validated ==
        [job_id |-> job_id.val, source |-> source.val,
         source_url |-> source_url.val, title |-> title.val,
         company |-> company.val, description |-> description.val,
         job_type |-> job_type.val, seniority |-> seniority.val,
         work_arrangement |-> work_arrangement.val,
         salary_min |-> salary_min.val, salary_max |-> salary_max.val,
         salary |-> salary.val, currency |-> currency.val,
         skills |-> skills.val, languages |-> languages.val,
         experience |-> experience.val,
         is_active |-> r.is_active, is_remote |-> r.is_remote,
         has_salary_info |-> r.has_salary_info]
      flagged == set_computed_flags(validated)
  IN IF fieldErrors # {} THEN [ok |-> FALSE, errors |-> fieldErrors, entity |-> <<>>]
     ELSE IF ~flagged.ok
          THEN [ok |-> FALSE, errors |-> FieldErrors(ModelLoc, flagged),
                entity |-> <<>>]
          ELSE [ok |-> TRUE, errors |-> {}, entity |-> <<flagged.val>>]

(***************************************************************************)
(* The raw records the model builds from.  BaseRaw is the record of        *)
(* test_job_listing_creation; each family below varies some of its keys.   *)
(***************************************************************************)
IdChars == {"a", " ", "\t", "-"}
TextChars == {"A", "a", "1", " ", "\t"}
ItemValues == {<<>>, <<" ">>, <<"P">>, <<"p">>, <<" ", "p", " ">>, <<"G">>}
Amounts == {NoneNum} \cup {Num(n) : n \in -1..MaxAmount}

BaseRaw ==
  [job_id |-> Str(<<"a">>), source |-> Str(<<"a">>),
   source_url |-> Str(<<"https://", "a">>), title |-> Str(<<"A">>),
   company |-> Str(<<"A">>), description |-> Str(<<"A">>),
   job_type |-> NoneTok, seniority |-> NoneTok, work_arrangement |-> NoneStr,
   salary_min |-> NoneNum, salary_max |-> NoneNum, salary |-> NoSalary,
   currency |-> NoneTok, skills |-> MissingList, languages |-> MissingList,
   experience |-> NoExperience,
   is_active |-> TRUE, is_remote |-> FALSE, has_salary_info |-> FALSE]

RequiredFields ==
  {"job_id", "source", "source_url", "title", "company", "description"}

IdValues ==
  {Missing, NoneStr} \cup {Str(s) : s \in StringsUpTo(IdChars, MaxLen)}
TextValues ==
  {Missing, NoneStr} \cup {Str(s) : s \in StringsUpTo(TextChars, MaxLen)}
BadValues == {Str(<<>>), Str(<<" ">>), Missing}
FlatRanges == {<<NoneNum, NoneNum>>, <<Num(1), Num(2)>>, <<Num(2), Num(1)>>}
ListValues ==
  {MissingList, NoneList} \cup {List(l) : l \in ListsUpTo(ItemValues, MaxItems)}
SalaryDicts ==
  {[tag |-> "dict", min_amount |-> a, max_amount |-> b, currency |-> c,
    original_text |-> t] :
     a \in Amounts, b \in Amounts, c \in {NoneTok, Tok("AED")},
     t \in {NoneTok, Tok("competitive")}}
ArrangementValues ==
  {NoneStr, Str(<<"r", "e", "m", "o", "t", "e">>),
   Str(<<"R", "e", "m", "o", "t", "e">>), Str(<<"R", "E", "M", "O", "T", "E">>),
   Str(<<" ", "R", "e", "m", "o", "t", "e", " ">>),
   Str(<<"H", "y", "b", "r", "i", "d">>)}

IdInput(r) == \E v \in IdValues : r = [BaseRaw EXCEPT !.job_id = v]

TextInput(r) ==
  \E v \in TextValues :
    \/ r = [BaseRaw EXCEPT !.title = v]
    \/ r = [BaseRaw EXCEPT !.company = v]
    \/ r = [BaseRaw EXCEPT !.description = v]

\* every combination of valid, empty, blank and missing required keys, with
\* a flat salary range that is absent, ordered or inverted
RequiredInput(r) ==
  \E a \in BadValues \cup {BaseRaw.job_id}, b \in BadValues \cup {BaseRaw.source},
     c \in BadValues \cup {BaseRaw.source_url},
     d \in BadValues \cup {BaseRaw.title}, e \in BadValues \cup {BaseRaw.company},
     f \in BadValues \cup {BaseRaw.description}, m \in FlatRanges :
    r = [BaseRaw EXCEPT !.job_id = a, !.source = b, !.source_url = c,
                        !.title = d, !.company = e, !.description = f,
                        !.salary_min = m[1], !.salary_max = m[2]]

ListInput(r) ==
  \E v \in ListValues :
    \/ r = [BaseRaw EXCEPT !.skills = v]
    \/ r = [BaseRaw EXCEPT !.languages = v]

SalaryInput(r) ==
  \E s \in SalaryDicts \cup {NoSalary}, a \in Amounts, b \in Amounts,
     c \in {NoneTok, Tok("AED")}, h \in BOOLEAN :
    r = [BaseRaw EXCEPT !.salary = s, !.salary_min = a, !.salary_max = b,
                        !.currency = c, !.has_salary_info = h]

ExperienceInput(r) ==
  \E a \in {NoneNum} \cup {Num(n) : n \in -1..(MaxYears + 1)},
     b \in {NoneNum} \cup {Num(n) : n \in -1..(MaxYears + 1)},
     t \in {NoneTok, Tok("3-5 years")} :
    r = [BaseRaw EXCEPT !.experience =
           [tag |-> "dict", min_years |-> a, max_years |-> b,
            original_text |-> t]]

ClassInput(r) ==
  \E j \in {NoneTok, Tok("full_time"), Tok("bogus"), EnumMember("full_time")},
     s \in {NoneTok, Tok("senior"), Tok("bogus"), EnumMember("senior")},
     w \in ArrangementValues, b \in BOOLEAN :
    r = [BaseRaw EXCEPT !.job_type = j, !.seniority = s,
                        !.work_arrangement = w, !.is_remote = b]

(***************************************************************************)
(* core/config.py: ConfigLoader.  A YAML file is what open() and           *)
(* yaml.safe_load make of it: missing, unreadable, empty (None), invalid   *)
(* YAML, or content of the type the loader declares, Dict[str, Any];       *)
(* sites.yml maps site names to site mappings.                             *)
(***************************************************************************)
SiteNames == {"wuzzuf", "bayt"}
\* the order of the keys in sites.yml
SiteOrder == <<"wuzzuf", "bayt">>
RequestedNames == SiteNames \cup {"invalid_site"}
RuleNames == {"salary", "seniority"}

\* a site mapping: its 'enabled' key is absent, true or false
NoSite == [present |-> FALSE, enabled |-> "absent", base_url |-> ""]
Site(n, e) == [present |-> TRUE, enabled |-> e, base_url |-> n]
SiteEntries(n) == {NoSite} \cup {Site(n, e) : e \in {"absent", "true", "false"}}
NoSites == [n \in SiteNames |-> NoSite]
SitesMappings ==
  {[n \in SiteNames |-> IF n = "wuzzuf" THEN w ELSE b] :
     w \in SiteEntries("wuzzuf"), b \in SiteEntries("bayt")}

SitesFiles ==
  {[kind |-> k, data |-> NoSites] : k \in {"missing", "empty", "invalid"}}
  \cup {[kind |-> "mapping", data |-> m] : m \in SitesMappings}
RulesFiles ==
  {[kind |-> k, data |-> ""] : k \in {"missing", "empty", "unreadable"}}
  \cup {[kind |-> "mapping", data |-> v] : v \in {"v1", "v2"}}

\* the exceptions of the loader are ConfigurationError with these messages
NotFoundMsg == "not found in configuration"
DisabledMsg == "is disabled"
RulesNotFoundMsg == "Rules file not found"
InvalidYamlMsg == "Invalid YAML in"
ErrorLoadingMsg == "Error loading configuration from"

\* _load_yaml without the test for empty content
load_yaml_accepting_empty(f) ==
  CASE f.kind \in {"mapping", "empty"} -> [ok |-> TRUE, data |-> f.data, msg |-> ""]
    [] f.kind = "invalid" -> [ok |-> FALSE, data |-> f.data, msg |-> InvalidYamlMsg]
    [] OTHER -> [ok |-> FALSE, data |-> f.data, msg |-> ErrorLoadingMsg]

\* ConfigLoader._load_yaml: open() failing and the ConfigurationError for
\* empty content are both caught by 'except Exception' and raised again as
\* ConfigurationError; a yaml.YAMLError likewise
load_yaml(f) ==
  CASE f.kind = "mapping" -> [ok |-> TRUE, data |-> f.data, msg |-> ""]
    [] f.kind = "invalid" -> [ok |-> FALSE, data |-> f.data, msg |-> InvalidYamlMsg]
    [] OTHER -> [ok |-> FALSE, data |-> f.data, msg |-> ErrorLoadingMsg]

\* the cache attributes: None / no key, or the loaded content
Unset(nodata) == [set |-> FALSE, data |-> nodata]
Cached(d) == [set |-> TRUE, data |-> d]

\* load_sites_config that reads the file on every call
load_sites_config_uncached(cache, f) ==
  LET y == load_yaml(f)
  IN IF y.ok
     THEN [ok |-> TRUE, msg |-> "", sites |-> y.data, cache |-> Cached(y.data),
           read |-> TRUE]
     ELSE [ok |-> FALSE, msg |-> y.msg, sites |-> NoSites, cache |-> cache,
           read |-> TRUE]

\* ConfigLoader.load_sites_config: the result, the cache after it and
\* whether sites.yml was opened
load_sites_config(cache, f) ==
  IF cache.set
  THEN [ok |-> TRUE, msg |-> "", sites |-> cache.data, cache |-> cache,
        read |-> FALSE]
  ELSE LET y == load_yaml(f)
       IN IF y.ok
          THEN [ok |-> TRUE, msg |-> "", sites |-> y.data,
                cache |-> Cached(y.data), read |-> TRUE]
          ELSE [ok |-> FALSE, msg |-> y.msg, sites |-> NoSites, cache |-> cache,
                read |-> TRUE]

\* get_site_config without the test of the enabled flag
site_config_ignoring_enabled(sites, site_name) ==
  IF site_name \notin SiteNames \/ ~sites[site_name].present
  THEN [ok |-> FALSE, msg |-> NotFoundMsg, site |-> NoSite]
  ELSE [ok |-> TRUE, msg |-> "", site |-> sites[site_name]]

\* ConfigLoader.get_site_config after sites = self.load_sites_config()
site_config(sites, site_name) ==
  IF site_name \notin SiteNames \/ ~sites[site_name].present
  THEN [ok |-> FALSE, msg |-> NotFoundMsg, site |-> NoSite]
  ELSE IF sites[site_name].enabled = "false"
       THEN [ok |-> FALSE, msg |-> DisabledMsg, site |-> NoSite]
       ELSE [ok |-> TRUE, msg |-> "", site |-> sites[site_name]]

\* get_enabled_sites with config.get('enabled', False)
enabled_sites_default_disabled(sites) ==
  SelectSeq(SiteOrder,
            LAMBDA n : sites[n].present /\ sites[n].enabled = "true")

\* ConfigLoader.get_enabled_sites after sites = self.load_sites_config()
enabled_sites(sites) ==
  SelectSeq(SiteOrder,
            LAMBDA n : sites[n].present /\ sites[n].enabled # "false")

\* ConfigLoader.load_rules for one rule name: entry is what _rules_config
\* holds under the name, f the file rules/<name>.yml
load_rules(entry, f) ==
  IF entry.set
  THEN [ok |-> TRUE, msg |-> "", rules |-> entry.data, entry |-> entry,
        read |-> FALSE]
  ELSE IF f.kind = "missing"
       THEN [ok |-> FALSE, msg |-> RulesNotFoundMsg, rules |-> "",
             entry |-> entry, read |-> TRUE]
       ELSE LET y == load_yaml(f)
            IN IF y.ok
               THEN [ok |-> TRUE, msg |-> "", rules |-> y.data,
                     entry |-> Cached(y.data), read |-> TRUE]
               ELSE [ok |-> FALSE, msg |-> y.msg, rules |-> "", entry |-> entry,
                     read |-> TRUE]

\* the outcome of the latest call on the loader: what it returned or raised,
\* whether the cache held the value before it (hit) and whether it went to
\* the file (read); seen is the kind of file it found
NoCall ==
  [op |-> "", arg |-> "", ok |-> TRUE, msg |-> "", hit |-> FALSE,
   read |-> FALSE, seen |-> "", sites |-> NoSites, site |-> NoSite,
   names |-> <<>>, rules |-> ""]

\* ConfigLoader(config_dir) on an existing directory
ConfigInit ==
  /\ sites_file \in SitesFiles
  /\ rules_files \in [RuleNames -> RulesFiles]
  /\ sites_config = Unset(NoSites)
  /\ rules_config = [n \in RuleNames |-> Unset("")]
  /\ call = NoCall
  /\ reads = 0

\* no loader is in use
ConfigAtRest ==
  /\ sites_file = [kind |-> "missing", data |-> NoSites]
  /\ rules_files = [n \in RuleNames |-> [kind |-> "missing", data |-> ""]]
  /\ sites_config = Unset(NoSites)
  /\ rules_config = [n \in RuleNames |-> Unset("")]
  /\ call = NoCall
  /\ reads = 0

\* loader.load_sites_config()
LoadSitesConfig ==
  /\ reads < MaxReads
  /\ LET r == load_sites_config(sites_config, sites_file)
     IN /\ sites_config' = r.cache
        /\ reads' = IF r.read /\ r.ok THEN reads + 1 ELSE reads
        /\ call' = [NoCall EXCEPT !.op = "load_sites_config", !.ok = r.ok,
                      !.msg = r.msg, !.hit = sites_config.set, !.read = r.read,
                      !.seen = sites_file.kind, !.sites = r.sites]
  /\ UNCHANGED <<sites_file, rules_files, rules_config, jobVars, loggingVars, contextVars, fetchVars>>

\* loader.get_site_config(site_name)
GetSiteConfig(site_name) ==
  /\ reads < MaxReads
  /\ LET r == load_sites_config(sites_config, sites_file)
         c == IF r.ok THEN site_config(r.sites, site_name)
              ELSE [ok |-> FALSE, msg |-> r.msg, site |-> NoSite]
     IN /\ sites_config' = r.cache
        /\ reads' = IF r.read /\ r.ok THEN reads + 1 ELSE reads
        /\ call' = [NoCall EXCEPT !.op = "get_site_config", !.arg = site_name,
                      !.ok = c.ok, !.msg = c.msg, !.hit = sites_config.set,
                      !.read = r.read, !.seen = sites_file.kind,
                      !.sites = r.sites, !.site = c.site]
  /\ UNCHANGED <<sites_file, rules_files, rules_config, jobVars, loggingVars, contextVars, fetchVars>>

\* loader.get_enabled_sites()
GetEnabledSites ==
  /\ reads < MaxReads
  /\ LET r == load_sites_config(sites_config, sites_file)
     IN /\ sites_config' = r.cache
        /\ reads' = IF r.read /\ r.ok THEN reads + 1 ELSE reads
        /\ call' = [NoCall EXCEPT !.op = "get_enabled_sites", !.ok = r.ok,
                      !.msg = r.msg, !.hit = sites_config.set, !.read = r.read,
                      !.seen = sites_file.kind, !.sites = r.sites,
                      !.names = IF r.ok THEN enabled_sites(r.sites) ELSE <<>>]
  /\ UNCHANGED <<sites_file, rules_files, rules_config, jobVars, loggingVars, contextVars, fetchVars>>

\* loader.load_rules(rule_name)
LoadRules(rule_name) ==
  /\ LET r == load_rules(rules_config[rule_name], rules_files[rule_name])
     IN /\ rules_config' = [rules_config EXCEPT ![rule_name] = r.entry]
        /\ call' = [NoCall EXCEPT !.op = "load_rules", !.arg = rule_name,
                      !.ok = r.ok, !.msg = r.msg,
                      !.hit = rules_config[rule_name].set, !.read = r.read,
                      !.seen = rules_files[rule_name].kind, !.rules = r.rules]
  /\ UNCHANGED <<sites_file, rules_files, sites_config, reads, jobVars, loggingVars, contextVars, fetchVars>>

\* loader.reload()
Reload ==
  /\ sites_config' = Unset(NoSites)
  /\ rules_config' = [n \in RuleNames |-> Unset("")]
  /\ reads' = 0
  /\ call' = [NoCall EXCEPT !.op = "reload"]
  /\ UNCHANGED <<sites_file, rules_files, jobVars, loggingVars, contextVars, fetchVars>>

\* sites.yml is written, removed or damaged by its owner
WriteSites ==
  /\ \E f \in SitesFiles : sites_file' = f
  /\ UNCHANGED <<rules_files, sites_config, rules_config, call, reads, jobVars, loggingVars, contextVars, fetchVars>>

\* a file under rules/ is written, removed or damaged by its owner
WriteRules ==
  /\ \E n \in RuleNames, f \in RulesFiles :
       rules_files' = [rules_files EXCEPT ![n] = f]
  /\ UNCHANGED <<sites_file, sites_config, rules_config, call, reads, jobVars, loggingVars, contextVars, fetchVars>>

(***************************************************************************)
(* extract/utils/logger.py: ColoredFormatter, setup_logging, LoggerContext.*)
(* A level is written by its name in the logging module.                   *)
(***************************************************************************)
LevelNames == {"DEBUG", "INFO", "WARNING", "ERROR", "CRITICAL"}

\* str.upper() of the level strings the model passes
Upper(level) ==
  CASE level = "debug" -> "DEBUG"
    [] level = "error" -> "ERROR"
    [] level = "verbose" -> "VERBOSE"
    [] OTHER -> level

\* the keys of ColoredFormatter.COLORS
COLORS == {"DEBUG", "INFO", "WARNING", "ERROR", "CRITICAL"}

\* ColoredFormatter.format(record): what it returns or raises and the
\* levelname the record is left with.  The dictionary lookup COLORS['RESET']
\* is evaluated before record.levelname is assigned.
ColoredFormatter_format(levelname) ==
  IF levelname \in COLORS
  THEN IF "RESET" \in COLORS
       THEN [raised |-> "", levelname |-> levelname, text |-> <<"color", levelname, "RESET">>]
       ELSE [raised |-> "KeyError", levelname |-> levelname, text |-> <<>>]
  ELSE [raised |-> "", levelname |-> levelname, text |-> <<levelname>>]

\* getattr(logging, log_level.upper(), logging.INFO)
numeric_level(log_level) ==
  IF Upper(log_level) \in LevelNames THEN Upper(log_level) ELSE "INFO"

Handler(class, file, level, formatter) ==
  [class |-> class, file |-> file, level |-> level, formatter |-> formatter]

\* the handlers setup_logging adds when enable_console
ConsoleHandlers(log_level, enable_console) ==
  IF enable_console
  THEN <<Handler("StreamHandler", "stdout", numeric_level(log_level),
                 "ColoredFormatter")>>
  ELSE <<>>

\* the handlers setup_logging adds when enable_file
FileHandlers(enable_file, enable_rotation) ==
  IF enable_file
  THEN <<Handler(IF enable_rotation THEN "RotatingFileHandler" ELSE "FileHandler",
                 "pipeline", "DEBUG", "Formatter"),
         Handler("RotatingFileHandler", "errors", "ERROR", "Formatter")>>
  ELSE <<>>

\* setup_logging without root_logger.handlers.clear()
setup_logging_keeping_handlers(handlers, level, a, disk) ==
  IF disk = "mkdir_fails"
  THEN [raised |-> "OSError", handlers |-> handlers, level |-> level]
  ELSE IF a.enable_file /\ disk = "open_fails"
       THEN [raised |-> "OSError",
             handlers |-> handlers \o ConsoleHandlers(a.log_level, a.enable_console),
             level |-> "DEBUG"]
       ELSE [raised |-> "",
             handlers |-> handlers \o ConsoleHandlers(a.log_level, a.enable_console)
                            \o FileHandlers(a.enable_file, a.enable_rotation),
             level |-> "DEBUG"]

\* setup_logging(log_level, log_dir, enable_console, enable_file,
\* enable_rotation) on the root logger's handlers and level; disk tells
\* whether log_dir.mkdir and the opening of the log files succeed
setup_logging(handlers, level, a, disk) ==
  IF disk = "mkdir_fails"
  THEN [raised |-> "OSError", handlers |-> handlers, level |-> level]
  ELSE IF a.enable_file /\ disk = "open_fails"
       THEN [raised |-> "OSError",
             handlers |-> ConsoleHandlers(a.log_level, a.enable_console),
             level |-> "DEBUG"]
       ELSE [raised |-> "",
             handlers |-> ConsoleHandlers(a.log_level, a.enable_console)
                            \o FileHandlers(a.enable_file, a.enable_rotation),
             level |-> "DEBUG"]

\* init_logging_from_env() with JOB_SCRAPER_LOG_LEVEL not set
EnvArgs ==
  [log_level |-> "INFO", enable_console |-> TRUE, enable_file |-> TRUE,
   enable_rotation |-> TRUE]
NoSetup == [op |-> "", args |-> EnvArgs, raised |-> ""]
NoFormat == [op |-> "", before |-> "", raised |-> "", levelname |-> "", text |-> <<>>]

\* the module is imported: under pytest nothing is installed, otherwise
\* init_logging_from_env() has run
LoggingInit ==
  /\ \/ root_handlers = <<>> /\ root_level = "WARNING"
     \/ /\ root_handlers = setup_logging(<<>>, "WARNING", EnvArgs, "ok").handlers
        /\ root_level = "DEBUG"
  /\ setup_call = NoSetup
  /\ formatted = NoFormat

LoggingAtRest ==
  /\ root_handlers = <<>>
  /\ root_level = "WARNING"
  /\ setup_call = NoSetup
  /\ formatted = NoFormat

(* The levels of the named logger and the LoggerContext objects on it.   *)
LoggerLevels == {"NOTSET", "DEBUG", "ERROR"}
ContextIds == 1..MaxContexts
NoContext ==
  [state |-> "none", original_level |-> "NOTSET", new_level |-> "NOTSET",
   entered_at |-> "NOTSET", depth |-> 0]
NoEvent == [kind |-> "", ctx |-> 0, how |-> ""]

ContextInit ==
  /\ logger_level \in LoggerLevels
  /\ contexts = [i \in ContextIds |-> NoContext]
  /\ blocks = <<>>
  /\ event = NoEvent

ContextAtRest ==
  /\ logger_level = "NOTSET"
  /\ contexts = [i \in ContextIds |-> NoContext]
  /\ blocks = <<>>
  /\ event = NoEvent

(***************************************************************************)
(* extract/utils/fetch.py: fetch(url, headers, retries, delay).  Every      *)
(* request is taken to complete: with a response, or with a                 *)
(* requests.RequestException from requests.get or raise_for_status.         *)
(***************************************************************************)
NoResult == [kind |-> "", value |-> ""]

\* fetch(url, retries=.., delay=..) is called
FetchInit ==
  /\ fetch_args \in [retries : -1..MaxRetries, delay : {-1, 0, 2}]
  /\ fetch_pc = "for"
  /\ attempt = 0
  /\ sent = <<>>
  /\ result = NoResult

FetchAtRest ==
  /\ fetch_args = [retries |-> 0, delay |-> 0]
  /\ fetch_pc = "idle"
  /\ attempt = 0
  /\ sent = <<>>
  /\ result = NoResult

(***************************************************************************)
(* The state machine: a raw record arrives, JobListing(raw) is called    *)
(* once and either returns the entity or raises a ValidationError.         *)
(***************************************************************************)
Init ==
  /\ \/ IdInput(raw)
     \/ TextInput(raw)
     \/ RequiredInput(raw)
     \/ ListInput(raw)
     \/ SalaryInput(raw)
     \/ ExperienceInput(raw)
     \/ ClassInput(raw)
  /\ pc = "raw"
  /\ errors = {}
  /\ listing = <<>>
  /\ rebuilt = <<>>
  /\ ConfigAtRest
  /\ LoggingAtRest
  /\ ContextAtRest
  /\ FetchAtRest

\* JobListing(raw)
Construct ==
  /\ pc = "raw"
  /\ LET built == JobListing(raw)
     IN /\ pc' = IF built.ok THEN "built" ELSE "failed"
        /\ errors' = built.errors
        /\ listing' = built.entity
  /\ UNCHANGED <<raw, rebuilt, configVars, loggingVars, contextVars, fetchVars>>

\* the entity returned is dumped with to_dict and a second JobListing is
\* built from the keys of the dump
Rebuild ==
  /\ pc = "built"
  /\ rebuilt = <<>>
  /\ rebuilt' = <<JobListing(to_dict(listing[1]))>>
  /\ UNCHANGED <<raw, pc, errors, listing, configVars, loggingVars, contextVars, fetchVars>>

Next == Construct \/ Rebuild

Spec == Init /\ [][Next]_vars

\* the attribute assignments tried on a returned entity
AssignedArrangement == Str(<<"r", "e", "m", "o", "t", "e">>)
AssignedTitle == <<" ">>

\* job.work_arrangement = "remote" or job.title = " " on the returned entity:
\* the class is neither frozen nor validates assignments, so the attribute
\* is set and no validator runs
Assign ==
  /\ pc = "built"
  /\ \/ listing' = <<[listing[1] EXCEPT !.work_arrangement = AssignedArrangement]>>
     \/ listing' = <<[listing[1] EXCEPT !.title = AssignedTitle]>>
  /\ UNCHANGED <<raw, pc, errors, rebuilt, configVars, loggingVars, contextVars, fetchVars>>

NextAssign == Construct \/ Assign

\* a raw record is built and the returned entity is then used by its holder
SpecAssign == Init /\ [][NextAssign]_vars

\* no record is being built
JobAtRest ==
  /\ raw = BaseRaw
  /\ pc = "raw"
  /\ errors = {}
  /\ listing = <<>>
  /\ rebuilt = <<>>

\* the loader and sites.yml: the rules files stay as they are
InitSites ==
  /\ JobAtRest
  /\ FetchAtRest
  /\ LoggingAtRest
  /\ ContextAtRest
  /\ ConfigInit
  /\ rules_files = [n \in RuleNames |-> [kind |-> "missing", data |-> ""]]

NextSites ==
  \/ LoadSitesConfig
  \/ \E n \in RequestedNames : GetSiteConfig(n)
  \/ GetEnabledSites
  \/ Reload
  \/ WriteSites

SpecSites == InitSites /\ [][NextSites]_vars

\* the loader and the rules files: sites.yml stays as it is
InitRules ==
  /\ JobAtRest
  /\ FetchAtRest
  /\ LoggingAtRest
  /\ ContextAtRest
  /\ ConfigInit
  /\ sites_file = [kind |-> "missing", data |-> NoSites]

NextRules ==
  \/ \E n \in RuleNames : LoadRules(n)
  \/ Reload
  \/ WriteRules

SpecRules == InitRules /\ [][NextRules]_vars

\* setup_logging(log_level=.., enable_console=.., enable_file=..,
\* enable_rotation=..)
SetupLogging ==
  /\ \E a \in [log_level : {"DEBUG", "INFO", "error", "verbose"},
               enable_console : BOOLEAN, enable_file : BOOLEAN,
               enable_rotation : BOOLEAN],
        disk \in {"ok", "mkdir_fails", "open_fails"} :
       LET r == setup_logging(root_handlers, root_level, a, disk)
       IN /\ root_handlers' = r.handlers
          /\ root_level' = r.level
          /\ setup_call' = [op |-> "setup_logging", args |-> a, raised |-> r.raised]
  /\ UNCHANGED <<formatted, jobVars, configVars, contextVars, fetchVars>>

\* ColoredFormatter().format(record) for a record of the given level name
Format ==
  /\ \E levelname \in LevelNames \cup {"TRACE"} :
       LET r == ColoredFormatter_format(levelname)
       IN formatted' = [op |-> "format", before |-> levelname, raised |-> r.raised,
                        levelname |-> r.levelname, text |-> r.text]
  /\ UNCHANGED <<root_level, root_handlers, setup_call, jobVars, configVars,
                 contextVars, fetchVars>>

InitLogging ==
  /\ JobAtRest
  /\ FetchAtRest
  /\ ConfigAtRest
  /\ ContextAtRest
  /\ LoggingInit

NextLogging == SetupLogging \/ Format

SpecLogging == InitLogging /\ [][NextLogging]_vars

\* ctx = LoggerContext(logger_name, level)
NewContext(i, level) ==
  /\ contexts[i].state = "none"
  /\ contexts' = [contexts EXCEPT ![i] =
                    [NoContext EXCEPT !.state = "constructed",
                                      !.original_level = logger_level,
                                      !.new_level = Upper(level)]]
  /\ event' = [kind |-> "init", ctx |-> i, how |-> ""]
  /\ UNCHANGED <<logger_level, blocks, jobVars, configVars, loggingVars, fetchVars>>

\* with ctx: the block is entered (__enter__)
Enter(i) ==
  /\ contexts[i].state \in {"constructed", "exited"}
  /\ logger_level' = contexts[i].new_level
  /\ contexts' = [contexts EXCEPT ![i].state = "entered",
                                  ![i].entered_at = logger_level,
                                  ![i].depth = Len(blocks)]
  /\ blocks' = <<i>> \o blocks
  /\ event' = [kind |-> "enter", ctx |-> i, how |-> ""]
  /\ UNCHANGED <<jobVars, configVars, loggingVars, fetchVars>>

\* the innermost block ends, normally or by an exception raised inside it
\* (__exit__ returns None, so the exception goes on)
Exit(how) ==
  /\ blocks # <<>>
  /\ LET i == Head(blocks)
     IN /\ logger_level' = contexts[i].original_level
        /\ contexts' = [contexts EXCEPT ![i].state = "exited"]
        /\ event' = [kind |-> "exit", ctx |-> i, how |-> how]
  /\ blocks' = Tail(blocks)
  /\ UNCHANGED <<jobVars, configVars, loggingVars, fetchVars>>

\* logging.getLogger(logger_name).setLevel(level) by the code around or
\* inside the blocks
SetLevel(level) ==
  /\ logger_level' = level
  /\ event' = [kind |-> "setLevel", ctx |-> 0, how |-> ""]
  /\ UNCHANGED <<contexts, blocks, jobVars, configVars, loggingVars, fetchVars>>

InitContext ==
  /\ JobAtRest
  /\ FetchAtRest
  /\ ConfigAtRest
  /\ LoggingAtRest
  /\ ContextInit

NextContext ==
  \/ \E i \in ContextIds, level \in {"debug", "ERROR"} : NewContext(i, level)
  \/ \E i \in ContextIds : Enter(i)
  \/ \E how \in {"normal", "exception"} : Exit(how)
  \/ \E level \in LoggerLevels : SetLevel(level)

SpecContext == InitContext /\ [][NextContext]_vars

\* for attempt in range(retries): the next iteration starts, or the loop is
\* over and fetch returns None
ForAttempt ==
  /\ fetch_pc = "for"
  /\ IF attempt < fetch_args.retries
     THEN fetch_pc' = "get" /\ UNCHANGED result
     ELSE fetch_pc' = "done" /\ result' = [kind |-> "returned", value |-> "None"]
  /\ UNCHANGED <<fetch_args, attempt, sent, jobVars, configVars, loggingVars,
                 contextVars>>

\* requests.get(url, headers=headers); response.raise_for_status();
\* return response.text
Get ==
  /\ fetch_pc = "get"
  /\ \E outcome \in {"ok", "http_error", "connection_error"} :
       /\ sent' = Append(sent, outcome)
       /\ IF outcome = "ok"
          THEN fetch_pc' = "done" /\ result' = [kind |-> "returned", value |-> "text"]
          ELSE fetch_pc' = "except" /\ UNCHANGED result
  /\ UNCHANGED <<fetch_args, attempt, jobVars, configVars, loggingVars,
                 contextVars>>

\* except requests.RequestException: print(..); sleep(delay).  time.sleep
\* raises ValueError for a negative length, inside the handler
Sleep ==
  /\ fetch_pc = "except"
  /\ IF fetch_args.delay < 0
     THEN /\ fetch_pc' = "done"
          /\ result' = [kind |-> "raised", value |-> "ValueError"]
          /\ UNCHANGED attempt
     ELSE /\ fetch_pc' = "for"
          /\ attempt' = attempt + 1
          /\ UNCHANGED result
  /\ UNCHANGED <<fetch_args, sent, jobVars, configVars, loggingVars, contextVars>>

InitFetch ==
  /\ JobAtRest
  /\ ConfigAtRest
  /\ LoggingAtRest
  /\ ContextAtRest
  /\ FetchInit

NextFetch == ForAttempt \/ Get \/ Sleep

SpecFetch == InitFetch /\ [][NextFetch]_vars

(***************************************************************************)
(* Properties                                                              *)
(***************************************************************************)
Built == pc = "built"
Failed == pc = "failed"
Entity == listing[1]

\* the fields the ValidationError names
ErrorFields == {e.loc : e \in errors}

\* the two errors validate_job_id raises
IdFormatMsgs ==
  {"job_id cannot be empty or contain spaces", "job_id must not contain '-'"}

IdFormatFailure ==
  /\ Failed
  /\ listing = <<>>
  /\ \E e \in errors : e.loc = "job_id" /\ e.msg \in IdFormatMsgs

\* C1 as stated: every job_id that contains a space or a hyphen anywhere,
\* leading and trailing positions included, makes construction fail with a
\* failure on job_id, and no entity is produced.
C1_AnySpaceOrHyphenFails ==
  (pc # "raw" /\ raw.job_id.tag = "str"
   /\ (Contains(raw.job_id.val, " ") \/ Contains(raw.job_id.val, "-")))
  => (Failed /\ listing = <<>> /\ "job_id" \in ErrorFields)

\* C1 amended: every job_id that, once its surrounding whitespace is trimmed,
\* still contains a space or a hyphen makes construction fail with an
\* identifier-format failure on job_id, and no entity is produced.
C1_TrimmedSpaceOrHyphenFails ==
  (pc # "raw" /\ raw.job_id.tag = "str"
   /\ (Contains(Strip(raw.job_id.val), " ") \/ Contains(Strip(raw.job_id.val), "-")))
  => IdFormatFailure

C1_Witness ==
  /\ IdFormatFailure
  /\ raw.job_id.tag = "str"
  /\ Contains(Strip(raw.job_id.val), "-")
  /\ ~Contains(raw.job_id.val, " ")

\* C2 as stated: the job_id of every constructed JobListing is the input
\* job_id without its surrounding whitespace, and holds no whitespace
\* character of any kind and no hyphen.
C2_StoredJobIdHasNoWhitespace ==
  Built =>
    /\ Entity.job_id = Strip(raw.job_id.val)
    /\ \A i \in 1..Len(Entity.job_id) :
         Entity.job_id[i] \notin Whitespace \cup {"-"}

\* a required key is absent, None, empty or whitespace-only
Blank(rv) == rv.tag # "str" \/ Strip(rv.val) = <<>>

\* C3: a JobListing is constructed only if each of job_id, source,
\* source_url, title, company and description is present and non-empty after
\* trimming; a record where one of them is missing, empty or whitespace-only
\* fails with a failure tagged to that field.
C3_RequiredFieldsNonEmpty ==
  /\ Built => \A f \in RequiredFields : ~Blank(raw[f]) /\ Entity[f] # <<>>
  /\ pc # "raw" =>
       \A f \in RequiredFields : Blank(raw[f]) => Failed /\ f \in ErrorFields

C3_Witness ==
  /\ Failed
  /\ raw.source = Str(<<" ">>)
  /\ raw.source_url = Missing
  /\ {"source", "source_url"} \subseteq ErrorFields

\* the validation of one field of the record r, taken alone
FieldResult(f, r) ==
  CASE f = "job_id" -> JobIdField(r.job_id)
    [] f = "source" -> SourceField(r.source)
    [] f = "source_url" -> SourceUrlField(r.source_url)
    [] f = "title" -> TitleField(r.title)
    [] f = "company" -> CompanyField(r.company)
    [] f = "description" -> DescriptionField(r.description)
    [] f = "job_type" -> JobTypeField(r.job_type)
    [] f = "seniority" -> SeniorityField(r.seniority)
    [] f = "salary" -> SalaryField(r.salary)
    [] f = "currency" -> CurrencyField(r.currency)
    [] f = "skills" -> SkillsField(r.skills)
    [] f = "languages" -> LanguagesField(r.languages)
    [] f = "experience" -> ExperienceField(r.experience)

ValidatedFields ==
  RequiredFields
  \cup {"job_type", "seniority", "salary", "currency", "skills", "languages",
        "experience"}

InvalidFields(r) == {f \in ValidatedFields : ~FieldResult(f, r).ok}

\* C4: failures are collected per field, not short-circuited: when k distinct
\* fields of a record are individually invalid, the failure set names all k.
C4_AllInvalidFieldsReported ==
  pc # "raw" =>
    \A f \in InvalidFields(raw) : Failed /\ listing = <<>> /\ f \in ErrorFields

C4_Witness ==
  /\ Failed
  /\ raw.job_id = Str(<<>>)
  /\ raw.title = Str(<<>>)
  /\ raw.description = Str(<<>>)
  /\ raw.source.tag = "str" /\ raw.company.tag = "str"
  /\ ErrorFields = {"job_id", "title", "description"}

\* salary_min > salary_max with no salary sub-entity given
FlatRangeInverted(r) ==
  /\ r.salary.tag = "none"
  /\ r.salary_min.tag = "num" /\ r.salary_max.tag = "num"
  /\ r.salary_min.num > r.salary_max.num

RangeFailureReported ==
  \E e \in errors : e.msg = "min_amount cannot be greater than max_amount"

\* C5 as stated: a record with an inverted salary range and another invalid
\* field fails with a failure set that holds the range failure as well as
\* the other field's failure.
C5_InvertedRangeReportedWithOthers ==
  (pc # "raw" /\ FlatRangeInverted(raw) /\ InvalidFields(raw) # {})
  => (Failed /\ RangeFailureReported /\ InvalidFields(raw) \subseteq ErrorFields)

\* C6: a description that, trimmed, does not begin with an uppercase letter
\* makes construction fail with a failure on description; the description of
\* every constructed JobListing begins with an uppercase letter.
C6_DescriptionStartsUpper ==
  /\ (pc # "raw" /\ raw.description.tag = "str"
      /\ Strip(raw.description.val) # <<>>
      /\ ~IsUpper(Strip(raw.description.val)[1]))
     => /\ Failed /\ listing = <<>>
        /\ [loc |-> "description",
            msg |-> "Description must start with an uppercase letter"] \in errors
  /\ Built => Entity.description # <<>> /\ IsUpper(Entity.description[1])

C6_Witness ==
  /\ Failed
  /\ raw.description.tag = "str"
  /\ Len(raw.description.val) > 1
  /\ raw.description.val[1] = " "
  /\ Strip(raw.description.val)[1] = "1"
  /\ ErrorFields = {"description"}

\* no leading or trailing whitespace, and every whitespace character is a
\* single space between two non-whitespace characters
Collapsed(s) ==
  \A i \in 1..Len(s) :
    s[i] \in Whitespace =>
      /\ s[i] = " "
      /\ 1 < i /\ i < Len(s)
      /\ s[i + 1] \notin Whitespace

\* C7: in every constructed JobListing title, company and description have
\* no leading or trailing whitespace and every internal whitespace run is a
\* single space.
C7_TextFieldsCollapsed ==
  Built => \A f \in {"title", "company", "description"} : Collapsed(Entity[f])

C7_Witness ==
  /\ Built
  /\ raw.title = Str(<<"A", "\t", " ", "a">>)
  /\ Entity.title = <<"A", " ", "a">>

\* the index of the first entry of l whose trimmed form is x
FirstTrimmed(l, x) == SetMin({i \in 1..Len(l) : Strip(l[i]) = x})

\* the output list out is a cleaned form of the input list in
CleanedList(in, out) ==
  /\ \A i \in 1..Len(out) : Strip(out[i]) # <<>>
  /\ \A i, j \in 1..Len(out) : i # j => out[i] # out[j]
  /\ \A i \in 1..Len(out) : \E k \in 1..Len(in) : out[i] = Strip(in[k])
  /\ \A i, j \in 1..Len(out) :
       i < j => FirstTrimmed(in, out[i]) < FirstTrimmed(in, out[j])

\* C8: the output skills/languages list holds no empty or whitespace-only
\* entry and no two equal entries, every entry is the trimmed form of an
\* input entry, and entries keep the order of their first occurrence.
C8_ListsCleaned ==
  Built =>
    /\ raw.skills.tag = "list" => CleanedList(raw.skills.items, Entity.skills)
    /\ raw.languages.tag = "list"
         => CleanedList(raw.languages.items, Entity.languages)

C8_Witness ==
  /\ Built
  /\ raw.skills = List(<<<<" ", "p", " ">>, <<" ">>, <<"p">>>>)
  /\ Entity.skills = <<<<"p">>>>

\* no two entries are equal when letter case is ignored
CaseInsensitiveDistinct(l) ==
  \A i, j \in 1..Len(l) : i # j => Lower(l[i]) # Lower(l[j])

\* C9 as stated: entries that differ only in letter case and surrounding
\* whitespace count as duplicates and only the first is kept.
C9_CaseInsensitiveDedupe ==
  Built =>
    /\ CaseInsensitiveDistinct(Entity.skills)
    /\ CaseInsensitiveDistinct(Entity.languages)

\* the record carries a salary amount, in the sub-entity or in the flat keys
RawHasAmount(r) ==
  IF r.salary.tag = "none"
  THEN r.salary_min.tag = "num" \/ r.salary_max.tag = "num"
  ELSE r.salary.min_amount.tag = "num" \/ r.salary.max_amount.tag = "num"

\* C10: in every constructed JobListing has_salary_info is true exactly when
\* salary is present and one of its amounts is set, whatever has_salary_info
\* the input supplied: false without salary and flat amounts, true with them.
C10_HasSalaryInfoDerived ==
  Built =>
    /\ Entity.has_salary_info
         <=> (Entity.salary.tag # "none"
              /\ (Entity.salary.min_amount.tag = "num"
                  \/ Entity.salary.max_amount.tag = "num"))
    /\ Entity.has_salary_info <=> RawHasAmount(raw)

C10_Witness ==
  /\ Built
  /\ raw.salary.tag = "none"
  /\ raw.salary_min = Num(1) /\ raw.salary_max = Num(2)
  /\ raw.currency = Tok("AED")
  /\ ~raw.has_salary_info
  /\ Entity.has_salary_info

\* C11: a record without a salary sub-entity that supplies salary_min or
\* salary_max builds a JobListing whose salary carries salary_min, salary_max
\* and the input currency; no JobListing is built with salary absent while
\* salary_min or salary_max is set.
C11_SalarySynthesized ==
  Built =>
    /\ (raw.salary.tag = "none"
        /\ (raw.salary_min.tag = "num" \/ raw.salary_max.tag = "num"))
       => /\ Entity.salary.tag = "obj"
          /\ Entity.salary.min_amount = raw.salary_min
          /\ Entity.salary.max_amount = raw.salary_max
          /\ Entity.salary.currency.tag = "none" <=> raw.currency.tag = "none"
          /\ Entity.salary.currency.tok = raw.currency.tok
    /\ ~(Entity.salary.tag = "none"
         /\ (Entity.salary_min.tag = "num" \/ Entity.salary_max.tag = "num"))

C11_Witness ==
  /\ Built
  /\ raw.salary.tag = "none"
  /\ raw.salary_min = Num(1) /\ raw.salary_max = NoneNum
  /\ raw.currency = Tok("AED")
  /\ Entity.salary.min_amount = Num(1)
  /\ Entity.salary.currency.tok = "AED"

\* C12: in every constructed JobListing is_remote is true exactly when
\* work_arrangement equals "remote" ignoring letter case and false otherwise,
\* also when work_arrangement is absent, whatever is_remote the input gave.
C12_IsRemoteDerived ==
  Built =>
    /\ Entity.is_remote \in BOOLEAN
    /\ Entity.is_remote
         <=> (Entity.work_arrangement.tag = "str"
              /\ Lower(Entity.work_arrangement.val) = RemoteWord)
    /\ Entity.work_arrangement.tag = "none" => ~Entity.is_remote
    /\ raw.work_arrangement.tag = "str"
         => Entity.work_arrangement = Str(Strip(raw.work_arrangement.val))

C12_Witness ==
  /\ Built
  /\ raw.work_arrangement = Str(<<"R", "E", "M", "O", "T", "E">>)
  /\ ~raw.is_remote
  /\ Entity.is_remote

\* C13: a job_type that is already a member of the enum is rejected with a
\* failure on field job_type; the raw string token "full_time" is accepted.
C13_JobTypeEnumMemberRejected ==
  pc # "raw" =>
    /\ raw.job_type.tag = "enum"
         => /\ Failed /\ listing = <<>>
            /\ [loc |-> "job_type", msg |-> "Invalid enum value"] \in errors
    /\ raw.job_type = Tok("full_time")
         => /\ "job_type" \notin ErrorFields
            /\ Built => Entity.job_type = Tok("full_time")

C13_Witness ==
  /\ Failed
  /\ raw.job_type = EnumMember("full_time")
  /\ ErrorFields = {"job_type"}

SalaryRangeGiven(r) ==
  /\ r.salary.tag = "dict"
  /\ r.salary.min_amount.tag = "num" /\ r.salary.max_amount.tag = "num"
  /\ r.salary.min_amount.num >= 0 /\ r.salary.max_amount.num >= 0

\* C15: a SalaryInfo with both amounts present and min_amount > max_amount
\* fails with a range error and yields no value; the amounts are never
\* swapped; min_amount = max_amount succeeds.
C15_InvertedSalaryRangeFails ==
  pc # "raw" =>
    /\ (SalaryRangeGiven(raw)
        /\ raw.salary.min_amount.num > raw.salary.max_amount.num)
       => /\ Failed /\ listing = <<>>
          /\ [loc |-> "salary",
              msg |-> "min_amount cannot be greater than max_amount"] \in errors
    /\ (SalaryRangeGiven(raw)
        /\ raw.salary.min_amount.num = raw.salary.max_amount.num)
       => "salary" \notin ErrorFields
    /\ (Built /\ raw.salary.tag = "dict")
       => /\ Entity.salary.min_amount = raw.salary.min_amount
          /\ Entity.salary.max_amount = raw.salary.max_amount

C15_Witness ==
  /\ Failed
  /\ SalaryRangeGiven(raw)
  /\ raw.salary.min_amount = Num(2) /\ raw.salary.max_amount = Num(1)
  /\ ErrorFields = {"salary"}

\* C20: a salary that is present but unparseable is a SalaryInfo that keeps
\* original_text with both amounts absent; it is no failure, the JobListing
\* is constructed and its has_salary_info is false.
C20_UnparseableSalaryKept ==
  (pc # "raw" /\ raw.salary.tag = "dict"
   /\ raw.salary.min_amount.tag = "none" /\ raw.salary.max_amount.tag = "none"
   /\ raw.salary.original_text.tag = "str")
  => /\ "salary" \notin ErrorFields
     /\ InvalidFields(raw) = {} => Built
     /\ Built => /\ Entity.salary.tag = "obj"
                 /\ Entity.salary.original_text = raw.salary.original_text
                 /\ Entity.salary.min_amount.tag = "none"
                 /\ Entity.salary.max_amount.tag = "none"
                 /\ ~Entity.has_salary_info

C20_Witness ==
  /\ Built
  /\ raw.salary.tag = "dict"
  /\ raw.salary.original_text = Tok("competitive")
  /\ raw.salary.min_amount.tag = "none" /\ raw.salary.max_amount.tag = "none"
  /\ raw.has_salary_info
  /\ ~Entity.has_salary_info

\* a year count, when present, lies within 0..50
YearsInRange(y) == y.tag = "num" => (0 <= y.num /\ y.num <= MaxYears)

\* min_years and max_years are in range and in order
ExperienceValid(x) ==
  /\ YearsInRange(x.min_years)
  /\ YearsInRange(x.max_years)
  /\ (x.min_years.tag = "num" /\ x.max_years.tag = "num")
       => x.min_years.num <= x.max_years.num

\* C16: every constructed ExperienceRequirement has min_years and max_years,
\* when present, within 0..50 and min_years <= max_years when both are
\* present; a construction that violates a bound or the order fails.
C16_ExperienceBounds ==
  /\ (Built /\ Entity.experience.tag = "obj")
       => /\ ExperienceValid(Entity.experience)
          /\ Entity.experience.min_years = raw.experience.min_years
          /\ Entity.experience.max_years = raw.experience.max_years
  /\ (pc # "raw" /\ raw.experience.tag = "dict")
       => IF ExperienceValid(raw.experience)
          THEN Built /\ Entity.experience.tag = "obj"
          ELSE Failed /\ listing = <<>> /\ ErrorFields = {"experience"}

C16_Witness ==
  /\ Failed
  /\ raw.experience.tag = "dict"
  /\ raw.experience.min_years = Num(MaxYears)
  /\ raw.experience.max_years = Num(MaxYears + 1)
  /\ ErrorFields = {"experience"}

\* the derived flags agree with the fields they are derived from and the
\* title is sanitized
ConstructionInvariants(e) ==
  /\ e.is_remote = IsRemote(e.work_arrangement)
  /\ e.has_salary_info = HasSalaryInfo(e.salary)
  /\ e.title # <<>> /\ Collapsed(e.title)

\* C17: a returned JobListing is immutable: in every later state it is the
\* entity construction returned, and the invariants of construction (derived
\* flags consistent with work_arrangement and salary, sanitized text) hold.
C17_ReturnedListingImmutable ==
  Built =>
    /\ listing = JobListing(raw).entity
    /\ ConstructionInvariants(Entity)

\* C18: building again from the to_dict output of a built JobListing succeeds
\* and yields an entity equal to the first in every field.
C18_RebuildIsIdentity ==
  rebuilt # <<>> =>
    /\ rebuilt[1].ok
    /\ rebuilt[1].entity = listing

C18_Witness ==
  /\ rebuilt # <<>>
  /\ raw.title = Str(<<"A", "\t", " ", "a">>)
  /\ Entity.title = <<"A", " ", "a">>
  /\ to_dict(Entity) # raw
  /\ rebuilt[1].entity = listing

\* C30: in every constructed JobListing salary_min and salary_max are
\* non-negative when present and salary_min <= salary_max when both are
\* present, whether or not the input also gave a salary sub-entity.
C30_FlatSalaryFieldsValid ==
  Built =>
    /\ Entity.salary_min.tag = "num" => Entity.salary_min.num >= 0
    /\ Entity.salary_max.tag = "num" => Entity.salary_max.num >= 0
    /\ (Entity.salary_min.tag = "num" /\ Entity.salary_max.tag = "num")
         => Entity.salary_min.num <= Entity.salary_max.num

\* the latest call raised the ConfigurationError of a failed file load
LoadFailed == ~call.ok /\ call.msg \in {RulesNotFoundMsg, InvalidYamlMsg, ErrorLoadingMsg}

\* C21: load_rules on a rule file that is missing, empty or unreadable raises
\* ConfigurationError and leaves no entry for the rule name in the cache, so
\* that the next load_rules call for the name goes to the file again.
C21_FailedRulesLoadNotCached ==
  call.op = "load_rules" =>
    /\ (~call.hit /\ call.seen \in {"missing", "empty", "unreadable"})
         => /\ LoadFailed
            /\ ~rules_config[call.arg].set
    /\ ~call.hit => call.read
    /\ ~call.ok => ~rules_config[call.arg].set

C21_Witness ==
  /\ call.op = "load_rules" /\ call.arg = "salary"
  /\ call.seen = "empty"
  /\ LoadFailed
  /\ ~rules_config["salary"].set
  /\ rules_config["seniority"].set

\* C22: get_site_config(name) raises ConfigurationError with "not found" when
\* name is no key of the sites configuration, raises ConfigurationError when
\* the site's enabled flag is false, and otherwise returns the site's mapping
\* unchanged.
C22_GetSiteConfig ==
  (call.op = "get_site_config" /\ sites_config.set) =>
    LET sites == sites_config.data
    IN IF call.arg \notin SiteNames \/ ~sites[call.arg].present
       THEN ~call.ok /\ call.msg = NotFoundMsg
       ELSE IF sites[call.arg].enabled = "false"
            THEN ~call.ok /\ call.msg = DisabledMsg
            ELSE call.ok /\ call.site = sites[call.arg]

C22_Witness ==
  /\ call.op = "get_site_config" /\ call.arg = "bayt"
  /\ sites_config.set
  /\ sites_config.data["bayt"] = Site("bayt", "false")
  /\ sites_config.data["wuzzuf"] = Site("wuzzuf", "true")
  /\ ~call.ok /\ call.msg = DisabledMsg

Elements(l) == {l[i] : i \in 1..Len(l)}

\* C27: get_site_config(name) returns a configuration exactly when name is in
\* the list get_enabled_sites() returns, for every sites configuration and
\* name; a site without an enabled key is enabled for both.
C27_EnabledSitesAgree ==
  sites_config.set =>
    /\ (call.op = "get_enabled_sites" /\ call.ok)
         => \A n \in RequestedNames :
              n \in Elements(call.names) <=> site_config(sites_config.data, n).ok
    /\ call.op = "get_site_config"
         => (call.ok <=> call.arg \in Elements(enabled_sites(sites_config.data)))
    /\ \A n \in SiteNames :
         sites_config.data[n] = Site(n, "absent")
           => /\ site_config(sites_config.data, n).ok
              /\ n \in Elements(enabled_sites(sites_config.data))

C27_Witness ==
  /\ call.op = "get_enabled_sites" /\ call.ok
  /\ sites_config.data["wuzzuf"] = Site("wuzzuf", "absent")
  /\ sites_config.data["bayt"] = Site("bayt", "false")
  /\ call.names = <<"wuzzuf">>

\* C23: inside a LoggerContext block the logger has the requested level, and
\* after the block ends, normally or by an exception, the logger has the
\* level it had immediately before the block was entered.
C23_LevelRestoredAfterBlock ==
  /\ event.kind = "enter" => logger_level = contexts[event.ctx].new_level
  /\ event.kind = "exit" => logger_level = contexts[event.ctx].entered_at

\* the positions of the root logger's handlers that write to the given place
HandlersTo(file) ==
  {i \in 1..Len(root_handlers) : root_handlers[i].file = file}

C28_FormatReturnsAndKeepsLevelname ==
  (formatted.op = "format" /\ formatted.before \in LevelNames) =>
    /\ formatted.raised = ""
    /\ formatted.text # <<>>
    /\ formatted.levelname = formatted.before

\* C29: when the logger's level was changed between the construction of a
\* LoggerContext and its entry, or the block is nested in another block on
\* the logger, the logger still has, after the block exits, the level it had
\* just before the block was entered.
C29_LevelRestoredUnderInterleaving ==
  (/\ event.kind = "exit"
   /\ \/ contexts[event.ctx].depth > 0
      \/ contexts[event.ctx].entered_at # contexts[event.ctx].original_level)
    => logger_level = contexts[event.ctx].entered_at

\* the number of requests fetch may make
Allowed == IF fetch_args.retries > 0 THEN fetch_args.retries ELSE 0

\* C25: fetch makes at most retries requests, stops at the first request that
\* succeeds and returns its text, and returns None exactly when all retries
\* attempts failed with a request error (no request and None for
\* retries <= 0).
C25_FetchOutcome ==
  /\ Len(sent) <= Allowed
  /\ \A i \in 1..(Len(sent) - 1) : sent[i] # "ok"
  /\ fetch_pc = "done" =>
       /\ result.kind = "returned"
       /\ result.value = "text" <=> (sent # <<>> /\ sent[Len(sent)] = "ok")
       /\ result.value = "None"
            <=> (Len(sent) = Allowed /\ \A i \in 1..Len(sent) : sent[i] # "ok")

====
